---------------------------- MODULE Spec2Model ----------------------------
(***************************************************************************)
(* Emoji Trends Explorer: the time-series pipeline of DataLoader           *)
(* (processTimeSeriesData, aggregateData) and the selection / projection   *)
(* state machine of App (handleSelectionChange, updateVisualizationContext,*)
(* populateYearFilter, the granularity and year-filter handlers).          *)
(*                                                                         *)
(* A JavaScript Date that holds a local midnight is modelled by its day    *)
(* number (days since 1970-01-01); the calendar getters and constructors   *)
(* are computed with the proleptic Gregorian calendar.  A string is a      *)
(* sequence of one-character strings.                                      *)
(***************************************************************************)
EXTENDS Integers, Sequences, FiniteSets, TLC

(***************************************************************************)
(* Bounds                                                                  *)
(***************************************************************************)
\* longest CSV file (number of rows) fed to the pure pipeline
MaxRows == 3
\* number of selection-change events in one behaviour
MaxEvents == 2

\* points of a hovered dataset
MaxPoints == 3
\* the largest catalog has MaxPages full pages and one more item
MaxPages == 3
\* the largest number of slides, and of dots, of the carousel
MaxSlides == 3
\* the largest number of carousel clicks of one behaviour
MaxClicks == 3

(***************************************************************************)
(* JavaScript Date, local calendar                                         *)
(***************************************************************************)
\* day number of the civil date y-m-d, m in 1..12
DaysFromCivil(y, m, d) ==
  LET yy  == IF m <= 2 THEN y - 1 ELSE y
      era == yy \div 400
      yoe == yy - era * 400
      mp  == (m + 9) % 12
      doy == (153 * mp + 2) \div 5 + d - 1
      doe == yoe * 365 + yoe \div 4 - yoe \div 100 + doy
  IN  era * 146097 + doe - 719468

\* the civil date from March-based year y, month index mp, day of year doy
CivilOfMonth(y, mp, doy) ==
  [y |-> IF mp < 10 THEN y ELSE y + 1,
   m |-> IF mp < 10 THEN mp + 3 ELSE mp - 9,
   d |-> doy - (153 * mp + 2) \div 5 + 1]

CivilOfDayOfYear(y, doy) == CivilOfMonth(y, (5 * doy + 2) \div 153, doy)

CivilOfYearOfEra(era, doe, yoe) ==
  CivilOfDayOfYear(yoe + era * 400,
                   doe - (365 * yoe + yoe \div 4 - yoe \div 100))

CivilOfDayOfEra(era, doe) ==
  CivilOfYearOfEra(era, doe,
                   (doe - doe \div 1460 + doe \div 36524 - doe \div 146096) \div 365)

\* civil date of a day number
CivilFromDays(z) ==
  CivilOfDayOfEra((z + 719468) \div 146097, (z + 719468) % 146097)

\* Date.prototype.getFullYear
getFullYear(date) == CivilFromDays(date).y

\* Date.prototype.getMonth: zero-based month index
getMonth(date) == CivilFromDays(date).m - 1

\* Date.prototype.getDate: day of the month
getDate(date) == CivilFromDays(date).d

\* Date.prototype.getDay: Sunday = 0; 1970-01-01 was a Thursday
getDay(date) == (date + 4) % 7

\* new Date(year, monthIndex, day): a day outside the month rolls over
NewDate(year, monthIndex, day) == DaysFromCivil(year, monthIndex + 1, 1) + day - 1

\* a setDate that stays inside the month: a day below 1 becomes day 1
setDateClamped(date, n) ==
  NewDate(getFullYear(date), getMonth(date), IF n < 1 THEN 1 ELSE n)

\* Date.prototype.setDate(n): day n of the date's month, rolling over
setDate(date, n) == NewDate(getFullYear(date), getMonth(date), n)

(***************************************************************************)
(* Strings: option values of the year <select>                             *)
(***************************************************************************)
DigitChars == <<"0", "1", "2", "3", "4", "5", "6", "7", "8", "9">>

\* the sentinel option value 'all'
ALL == <<"a", "l", "l">>

RECURSIVE NumberToString(_)
\* String(n) for a natural number n, as option.value = year does
NumberToString(n) ==
  IF n < 10 THEN <<DigitChars[n + 1]>>
  ELSE NumberToString(n \div 10) \o <<DigitChars[(n % 10) + 1]>>

IsDigit(c) == \E i \in 1..10 : DigitChars[i] = c

DigitValue(c) == (CHOOSE i \in 1..10 : DigitChars[i] = c) - 1

RECURSIVE ParseDigits(_, _, _)
ParseDigits(s, i, acc) ==
  IF i > Len(s) \/ ~IsDigit(s[i]) THEN acc
  ELSE ParseDigits(s, i + 1, acc * 10 + DigitValue(s[i]))

\* parseInt(s): the leading decimal digits; NaN (modelled as -1) when none
parseInt(s) ==
  IF Len(s) = 0 \/ ~IsDigit(s[1]) THEN -1 ELSE ParseDigits(s, 1, 0)

(***************************************************************************)
(* DataLoader                                                              *)
(***************************************************************************)
Granularities == {"day", "week", "month", "year"}

\* what d3.timeParse returns for a text it cannot read; the dates of the
\* model are day numbers above 0
null == -1

\* the value of a missing array element
undefined == [defined |-> FALSE]

\* a Date operand of the subtraction in a sort comparator: null becomes 0
ToNumber(date) == IF date = null THEN 0 ELSE date

\* d3.timeParse("%Y-%m-%d") applied to a day text: the fields of a text of
\* that form go to new Date(y, m - 1, d), any other text gives null
parseDate(day) ==
  IF DOMAIN day = {"y", "m", "d"} THEN NewDate(day.y, day.m - 1, day.d)
  ELSE null

RECURSIVE InsertByDate(_, _)
\* place r after every record of the sorted s whose date is <= r.date
InsertByDate(s, r) ==
  IF s = <<>> THEN <<r>>
  ELSE IF ToNumber(r.date) - ToNumber(Head(s).date) < 0 THEN <<r>> \o s
  ELSE <<Head(s)>> \o InsertByDate(Tail(s), r)

\* a sort that leaves the rows in file order
SortByDateNot(s) == s

RECURSIVE SortByDate(_)
\* Array.prototype.sort((a, b) => a.date - b.date): stable, ascending
SortByDate(s) ==
  IF s = <<>> THEN <<>>
  ELSE InsertByDate(SortByDate(SubSeq(s, 1, Len(s) - 1)), s[Len(s)])

\* DataLoader.processTimeSeriesData
processTimeSeriesData(data, emojiName) ==
  SortByDate([i \in 1..Len(data) |->
                [date  |-> parseDate(data[i].day),
                 usage |-> data[i].usage,
                 emoji |-> emojiName]])

\* a key function whose month key is the record's own day
BucketKeyMonthByDay(d, granularity) ==
  CASE granularity = "year" -> NewDate(getFullYear(d.date), 0, 1)
    [] granularity = "week" -> setDate(d.date, getDate(d.date) - getDay(d.date))
    [] OTHER                -> d.date

\* a key function whose year key is the first day of the record's month
BucketKeyYearByMonth(d, granularity) ==
  CASE granularity = "week" -> setDate(d.date, getDate(d.date) - getDay(d.date))
    [] granularity \in {"month", "year"} ->
         NewDate(getFullYear(d.date), getMonth(d.date), 1)
    [] OTHER -> d.date

\* the key function handed to d3.group by aggregateData
BucketKey(d, granularity) ==
  LET date == d.date
  IN  CASE granularity = "month" -> NewDate(getFullYear(date), getMonth(date), 1)
        [] granularity = "year"  -> NewDate(getFullYear(date), 0, 1)
        [] granularity = "week"  -> setDate(date, getDate(date) - getDay(date))
        [] OTHER                 -> d.date

\* Map.prototype.get/set of d3.group on an insertion-ordered map whose keys
\* are compared by value (d3 v7 InternMap): d joins the group of key k
AddToGroup(groups, k, d) ==
  IF \E i \in 1..Len(groups) : groups[i].key = k
  THEN [i \in 1..Len(groups) |->
          IF groups[i].key = k
          THEN [key |-> k, values |-> Append(groups[i].values, d)]
          ELSE groups[i]]
  ELSE Append(groups, [key |-> k, values |-> <<d>>])

RECURSIVE GroupInto(_, _, _)
\* add the records of data, in order, to the groups (key, values)
GroupInto(groups, data, granularity) ==
  IF data = <<>> THEN groups
  ELSE GroupInto(AddToGroup(groups, BucketKey(Head(data), granularity), Head(data)),
                 Tail(data), granularity)

\* a grouping that compares Date keys by object identity: no two records
\* ever share a key
d3groupByIdentity(data, granularity) ==
  [i \in 1..Len(data) |->
     [key |-> BucketKey(data[i], granularity), values |-> <<data[i]>>]]

\* d3.group(data, keyFunction)
d3group(data, granularity) == GroupInto(<<>>, data, granularity)

RECURSIVE d3sum(_)
\* d3.sum(values, d => d.usage)
d3sum(values) ==
  IF values = <<>> THEN 0 ELSE Head(values).usage + d3sum(Tail(values))

\* one bucket per group, first record's usage only
FirstOfGroups(grouped) ==
  [i \in 1..Len(grouped) |->
     [date  |-> grouped[i].key,
      usage |-> grouped[i].values[1].usage,
      emoji |-> grouped[i].values[1].emoji]]

\* buckets that do not carry the emoji of their records
BucketsUnlabelled(grouped) ==
  [i \in 1..Len(grouped) |->
     [date  |-> grouped[i].key,
      usage |-> d3sum(grouped[i].values),
      emoji |-> ""]]

\* Array.from(grouped, ...): one bucket per group, in insertion order
BucketsOf(grouped) ==
  [i \in 1..Len(grouped) |->
     [date  |-> grouped[i].key,
      usage |-> d3sum(grouped[i].values),
      emoji |-> grouped[i].values[1].emoji]]

\* an aggregation without the early return for day: days are grouped too
aggregateDataGroupingDays(data, granularity) ==
  SortByDate(BucketsOf(d3group(data, granularity)))

\* an aggregation that keeps only the first record's usage of each group
aggregateDataFirstOnly(data, granularity) ==
  IF granularity = "day" THEN data
  ELSE SortByDate(FirstOfGroups(d3group(data, granularity)))

\* DataLoader.aggregateData
aggregateData(data, granularity) ==
  IF granularity = "day" THEN data
  ELSE SortByDate(BucketsOf(d3group(data, granularity)))

RECURSIVE FilterYear(_, _)
\* Array.prototype.filter(d => d.date.getFullYear() === year)
FilterYear(data, year) ==
  IF data = <<>> THEN <<>>
  ELSE IF getFullYear(Head(data).date) = year
       THEN <<Head(data)>> \o FilterYear(Tail(data), year)
       ELSE FilterYear(Tail(data), year)

\* a year filter that ignores the selected year
applyYearFilterNone(rawData, year) == rawData

\* the year filter of App.updateVisualizationContext
applyYearFilter(rawData, year) ==
  IF year # ALL THEN FilterYear(rawData, parseInt(year)) ELSE rawData

\* a resolver that keeps month granularity inside a single year
resolveGranularityKeepMonth(currentGranularity, year) == currentGranularity

\* the effective granularity of App.updateVisualizationContext
resolveGranularity(currentGranularity, year) ==
  IF currentGranularity = "month" /\ year # ALL THEN "day"
  ELSE currentGranularity


(***************************************************************************)
(* State                                                                   *)
(***************************************************************************)
VARIABLES
  selectedEmojis,     \* App.selectedEmojis: a Set, in insertion order
  loadedData,         \* App.loadedData: Map emojiName -> record sequence
  currentGranularity, \* App.currentGranularity
  filters,            \* App.filters
  yearSelect,         \* the #year-filter <select>: its options and value
  handlers,           \* the calls of handleSelectionChange, oldest first
  projection,         \* the last run of updateVisualizationContext
  view,               \* what the chart area shows
  fetchCount,         \* per entity: calls of loadEmojiTimeSeries so far
  writeCount,         \* per entity: calls of loadedData.set so far
  lastFetchFailed,    \* entities whose most recent resolved fetch failed
  csv,                \* pipeline: the rows of one CSV file
  series,             \* pipeline: processTimeSeriesData(csv)
  granArg,            \* pipeline: granularity argument
  yearArg,            \* pipeline: year argument
  result,             \* pipeline: output of the last call
  stage,              \* pipeline: which call produced result
  focus,              \* chart: the cursor date and the point of the focus dot
  rankingsData,       \* App.rankingsData: null, or the full emoji list
  currentCategoryFilter, \* App.currentCategoryFilter
  itemsToShow,        \* App.itemsToShow
  categoryOptions,    \* the option values of the #category-filter <select>
  grid,               \* what the grid container shows
  currentSpotlightIndex, \* App.currentSpotlightIndex
  totalSlides,        \* the number of children of #spotlight-track
  track,              \* the transform of the track and the active dot
  clicks              \* the carousel clicks so far, with the index each left

appVars == <<selectedEmojis, loadedData, currentGranularity, filters,
             yearSelect, handlers, projection, view, fetchCount, writeCount,
             lastFetchFailed>>

pipeVars == <<csv, series, granArg, yearArg, result, stage>>

catalogVars == <<rankingsData, currentCategoryFilter, itemsToShow,
                 categoryOptions, grid>>

carouselVars == <<currentSpotlightIndex, totalSlides, track, clicks>>

sideVars == <<focus, catalogVars, carouselVars>>

vars == <<selectedEmojis, loadedData, currentGranularity, filters,
          yearSelect, handlers, projection, view, fetchCount, writeCount,
          lastFetchFailed, csv, series, granArg, yearArg, result, stage,
          focus, rankingsData, currentCategoryFilter, itemsToShow,
          categoryOptions, grid, currentSpotlightIndex, totalSlides, track,
          clicks>>

(***************************************************************************)
(* Inputs                                                                  *)
(***************************************************************************)
\* the emoji slugs of the model, two keys of DataLoader.emojiMap
Entities == {"santa", "snake"}

Day(y, m, d) == [y |-> y, m |-> m, d |-> d]

Row(y, m, d, u) == [day |-> Day(y, m, d), usage |-> u]

\* rows a CSV file may hold: two years, a year boundary, weeks that begin
\* in the previous month or year, two days of one week, and one repeated day
RowValues ==
  { Row(2022, 12, 28, 5), Row(2023, 1, 5, 3), Row(2023, 1, 5, 5),
    Row(2023, 1, 20, 5), Row(2023, 2, 2, 2), Row(2023, 3, 15, 3),
    Row(2024, 1, 2, 2), Row(2023, 1, 3, 2) }

\* a day text that is not of the form YYYY-MM-DD
Unparseable == [text |-> "n/a"]

\* a row whose day field cannot be read
BadRow(u) == [day |-> Unparseable, usage |-> u]

RECURSIVE SeqsUpTo(_, _)
SeqsUpTo(S, n) ==
  IF n = 0 THEN {<<>>}
  ELSE LET shorter == SeqsUpTo(S, n - 1)
       IN  shorter \cup {Append(s, x) : s \in shorter, x \in S}

\* the CSV files of the pipeline specification
CsvFiles == SeqsUpTo(RowValues, MaxRows)

\* years a caller may filter by
FilterYears == {2021, 2022, 2023, 2024}

\* the file served for each entity, rows in file order
CsvOf(emojiName) ==
  IF emojiName = "santa"
  THEN <<Row(2023, 1, 5, 3), Row(2022, 12, 28, 5)>>
  ELSE <<Row(2023, 2, 2, 2), Row(2023, 1, 20, 5)>>

\* what a d3.csv request can come back with
FetchOutcomes(emojiName) ==
  {[ok |-> b, rows |-> CsvOf(emojiName)] : b \in BOOLEAN}

\* values of the multi-select: arrays of distinct slugs, or null (as <<>>)
Selections ==
  {s \in SeqsUpTo(Entities, Cardinality(Entities)) :
     \A i, j \in 1..Len(s) : i # j => s[i] # s[j]}

Range(s) == {s[i] : i \in 1..Len(s)}

(***************************************************************************)
(* App: helpers                                                            *)
(***************************************************************************)
\* Map.prototype.set that forgets every other key
MapSetEvicting(map, key, value) == [k \in {key} |-> value]

\* Map.prototype.set
MapSet(map, key, value) ==
  [k \in DOMAIN map \cup {key} |-> IF k = key THEN value ELSE map[k]]

\* a loader that forgets to catch: the rows are processed even on failure
loadEmojiTimeSeriesNoCatch(outcome, emojiName) ==
  processTimeSeriesData(outcome.rows, emojiName)

\* DataLoader.loadEmojiTimeSeries, given what d3.csv came back with
loadEmojiTimeSeries(outcome, emojiName) ==
  IF outcome.ok THEN processTimeSeriesData(outcome.rows, emojiName)
  ELSE <<>>

RECURSIVE FilterNotLoaded(_, _)
FilterNotLoaded(selection, loaded) ==
  IF selection = <<>> THEN <<>>
  ELSE IF Head(selection) \notin DOMAIN loaded
       THEN <<Head(selection)>> \o FilterNotLoaded(Tail(selection), loaded)
       ELSE FilterNotLoaded(Tail(selection), loaded)

\* a toLoad that refetches every selected entity
ToLoadAll(currentSelection, loaded) == currentSelection

\* toLoad of handleSelectionChange
ToLoad(currentSelection, loaded) == FilterNotLoaded(currentSelection, loaded)

\* a loop that stops waiting after its first fetch
LoopFinishedEarly(h) == TRUE

\* the for-await loop of handleSelectionChange has no entity left
LoopFinished(h) == h.idx = Len(h.toLoad)

\* the display name built from a slug ("graduation_cap" -> "Graduation Cap")
DisplayName(emoji) ==
  CASE emoji = "santa" -> "Santa"
    [] emoji = "snake" -> "Snake"
    [] OTHER -> emoji

\* Number(s) for an option value: digits only, else NaN (modelled as -1)
Number(s) ==
  IF Len(s) > 0 /\ \A i \in 1..Len(s) : IsDigit(s[i]) THEN parseInt(s) ELSE -1

Max(S) == CHOOSE x \in S : \A y \in S : y <= x

RECURSIVE SortDescending(_)
\* Array.from(years).sort((a, b) => b - a)
SortDescending(S) ==
  IF S = {} THEN <<>>
  ELSE <<Max(S)>> \o SortDescending(S \ {Max(S)})

\* the calendar years of the valid dates of the sources
YearsOf(sources, loaded) ==
  UNION {{getFullYear(loaded[e][i].date) : i \in 1..Len(loaded[e])} :
           e \in sources \cap DOMAIN loaded}

\* a rebuilt <select> that restores the previous value without looking at
\* the years
RebuiltSelectKeepsValue(sortedYears, currentVal) ==
  [options |-> <<ALL>> \o
               [i \in 1..Len(sortedYears) |-> NumberToString(sortedYears[i])],
   value   |-> currentVal]

\* the rebuilt <select> of populateYearFilter, its value restored if valid
RebuiltSelect(sortedYears, currentVal) ==
  [options |-> <<ALL>> \o
               [i \in 1..Len(sortedYears) |-> NumberToString(sortedYears[i])],
   value   |-> IF currentVal # ALL /\ Number(currentVal) \in Range(sortedYears)
               THEN currentVal ELSE ALL]

\* App.populateYearFilter: the rebuilt <select>; filters.year is its value
populateYearFilter(selected, loaded, select) ==
  RebuiltSelect(
    SortDescending(YearsOf(IF Len(selected) > 0 THEN Range(selected)
                           ELSE DOMAIN loaded, loaded)),
    select.value)

(***************************************************************************)
(* App: projection and render                                              *)
(***************************************************************************)
\* the .map callback of updateVisualizationContext throws a TypeError for
\* this entity: rawData is undefined and is filtered or handed to d3.group
EntryThrows(emoji, loaded, year, granularity) ==
  /\ emoji \notin DOMAIN loaded
  /\ \/ year # ALL
     \/ resolveGranularity(granularity, year) # "day"

\* an element of displayData that records the requested granularity instead
\* of the one its values were aggregated by
DisplayEntryRequested(emoji, loaded, year, granularity) ==
  IF emoji \in DOMAIN loaded
  THEN [name        |-> DisplayName(emoji),
        defined     |-> TRUE,
        values      |-> aggregateData(applyYearFilter(loaded[emoji], year),
                                      resolveGranularity(granularity, year)),
        granularity |-> granularity]
  ELSE [name        |-> DisplayName(emoji),
        defined     |-> FALSE,
        values      |-> <<>>,
        granularity |-> granularity]

\* one element of displayData; values is undefined when rawData was
\* undefined and aggregateData returned it unchanged
DisplayEntry(emoji, loaded, year, granularity) ==
  IF emoji \in DOMAIN loaded
  THEN [name        |-> DisplayName(emoji),
        defined     |-> TRUE,
        values      |-> aggregateData(applyYearFilter(loaded[emoji], year),
                                      resolveGranularity(granularity, year)),
        granularity |-> resolveGranularity(granularity, year)]
  ELSE [name        |-> DisplayName(emoji),
        defined     |-> FALSE,
        values      |-> <<>>,
        granularity |-> resolveGranularity(granularity, year)]

\* the chart area in one of its states
View(state, data, granularity) ==
  [state |-> state, data |-> data, granularity |-> granularity]

\* data.every(d => d.values.length === 0) reads .length of undefined: an
\* undefined values comes before every non-empty one
EveryThrows(data) ==
  \E i \in 1..Len(data) :
    /\ ~data[i].defined
    /\ \A j \in 1..(i - 1) : data[j].defined /\ Len(data[j].values) = 0

\* App.updateVisualization: the outcome and the new chart area
updateVisualization(data, effectiveGranularity, year, oldView) ==
  IF Len(data) = 0
  THEN [outcome |-> "ok", view |-> View("placeholder", <<>>, "none")]
  ELSE IF EveryThrows(data)
  THEN [outcome |-> "TypeError", view |-> oldView]
  ELSE IF \A i \in 1..Len(data) : Len(data[i].values) = 0
  THEN [outcome |-> "ok", view |-> View("nodata", <<>>, "none")]
  ELSE IF \E i \in 1..Len(data) : ~data[i].defined
  THEN \* createTimeSeriesChart cleared the container, then d3.extent read
       \* .date of undefined
       [outcome |-> "TypeError", view |-> View("emptysvg", <<>>, "none")]
  ELSE [outcome |-> "ok", view |-> View("chart", data, effectiveGranularity)]

\* a key function that calls setDate on the record's own Date
KeyFunctionLeavesShifted(d, granularity) ==
  IF granularity = "week"
  THEN [d EXCEPT !.date = setDate(d.date, getDate(d.date) - getDay(d.date))]
  ELSE d

\* the record d once the key function of aggregateData has run on it: the
\* function works on new Date(d.date), a copy, and assigns nothing to d
KeyFunctionLeaves(d, granularity) == d

\* the map callback reaches aggregateData for selected[i]: no entity up to
\* it throws
Aggregated(i, selected, loaded, year, granularity) ==
  \A j \in 1..i : ~EntryThrows(selected[j], loaded, year, granularity)

\* the record is handed to aggregateData
PassesYear(d, year) == year = ALL \/ getFullYear(d.date) = parseInt(year)

\* loadedData as a run of updateVisualizationContext leaves it: the records
\* that went through d3.group are as the key function left them
LoadedAfter(selected, loaded, year, granularity) ==
  [e \in DOMAIN loaded |->
     IF \E i \in 1..Len(selected) :
          selected[i] = e /\ Aggregated(i, selected, loaded, year, granularity)
     THEN [k \in 1..Len(loaded[e]) |->
             IF /\ resolveGranularity(granularity, year) # "day"
                /\ PassesYear(loaded[e][k], year)
             THEN KeyFunctionLeaves(loaded[e][k],
                                    resolveGranularity(granularity, year))
             ELSE loaded[e][k]]
     ELSE loaded[e]]

\* what a projection was run on
Ran(caller, selected, loaded, year, granularity) ==
  [caller |-> caller, selection |-> selected, keys |-> DOMAIN loaded,
   requested |-> granularity, year |-> year]

\* the run of updateVisualizationContext once displayData is built
Drawn(ran, displayData, globalEffectiveGranularity, drawn) ==
  [projection |-> [ran |-> ran, outcome |-> drawn.outcome,
                   data |-> displayData,
                   granularity |-> globalEffectiveGranularity],
   view |-> drawn.view]

\* the tail of updateVisualizationContext: updateVisualization(displayData,
\* globalEffectiveGranularity)
Draw(ran, displayData, globalEffectiveGranularity, oldView) ==
  Drawn(ran, displayData, globalEffectiveGranularity,
        updateVisualization(displayData, globalEffectiveGranularity, ran.year,
                            oldView))

RECURSIVE ArrayFrom(_)
\* the elements of a set as a sequence
ArrayFrom(S) ==
  IF S = {} THEN <<>>
  ELSE <<CHOOSE x \in S : TRUE>> \o ArrayFrom(S \ {CHOOSE x \in S : TRUE})

\* a projection that falls back to every loaded entity when nothing is
\* selected, as populateYearFilter does for its sources
updateVisualizationContextOfSources(caller, selected, loaded, year, granularity, oldView) ==
  IF Len(selected) = 0
  THEN Draw(Ran(caller, selected, loaded, year, granularity),
            [i \in 1..Cardinality(DOMAIN loaded) |->
               DisplayEntry(ArrayFrom(DOMAIN loaded)[i], loaded, year, granularity)],
            resolveGranularity(granularity, year), oldView)
  ELSE IF \E i \in 1..Len(selected) :
            EntryThrows(selected[i], loaded, year, granularity)
  THEN [projection |-> [ran |-> Ran(caller, selected, loaded, year, granularity),
                        outcome |-> "TypeError",
                        data |-> <<>>, granularity |-> "none"],
        view |-> oldView]
  ELSE Draw(Ran(caller, selected, loaded, year, granularity),
            [i \in 1..Len(selected) |->
               DisplayEntry(selected[i], loaded, year, granularity)],
            resolveGranularity(granularity, year), oldView)

\* App.updateVisualizationContext, called by caller: the record of the run
\* and the new chart area
updateVisualizationContext(caller, selected, loaded, year, granularity, oldView) ==
  IF \E i \in 1..Len(selected) :
       EntryThrows(selected[i], loaded, year, granularity)
  THEN [projection |-> [ran |-> Ran(caller, selected, loaded, year, granularity),
                        outcome |-> "TypeError",
                        data |-> <<>>, granularity |-> "none"],
        view |-> oldView]
  ELSE Draw(Ran(caller, selected, loaded, year, granularity),
            [i \in 1..Len(selected) |->
               DisplayEntry(selected[i], loaded, year, granularity)],
            resolveGranularity(granularity, year), oldView)

(***************************************************************************)
(* Initial state: App as constructed, no CSV in the pipeline               *)
(***************************************************************************)
\* the caller of a projection that is not a call of handleSelectionChange
UiCaller ==
  [h |-> 0, sel |-> <<>>, toLoad |-> <<>>, known |-> {}, issued |-> {},
   resolved |-> {}]

\* a call of handleSelectionChange that has returned: nothing of it is left
Returned ==
  [sel |-> <<>>, toLoad |-> <<>>, known |-> {}, idx |-> 0, pc |-> "done",
   issued |-> {}, resolved |-> {}]

\* call h as the caller of its projection
CallerOf(h, call) ==
  [h |-> h, sel |-> call.sel, toLoad |-> call.toLoad, known |-> call.known,
   issued |-> call.issued, resolved |-> call.resolved]

NoProjection ==
  [ran |-> [caller |-> UiCaller, selection |-> <<>>, keys |-> {},
            requested |-> "month", year |-> ALL],
   outcome |-> "none", data |-> <<>>, granularity |-> "none"]

AppInit ==
  /\ selectedEmojis = <<>>
  /\ loadedData = [e \in {} |-> <<>>]
  /\ currentGranularity = "month"
  /\ filters = [year |-> ALL]
  /\ yearSelect = [options |-> <<ALL>>, value |-> ALL]
  /\ handlers = <<>>
  /\ projection = NoProjection
  /\ view = View("initial", <<>>, "none")
  /\ fetchCount = [e \in Entities |-> 0]
  /\ writeCount = [e \in Entities |-> 0]
  /\ lastFetchFailed = {}

PipeIdle ==
  /\ csv = <<>>
  /\ series = <<>>
  /\ granArg = "day"
  /\ yearArg = ALL
  /\ result = <<>>
  /\ stage = "idle"

\* no mouse event yet
NoFocus == [moved |-> FALSE, xDate |-> 0, d |-> undefined]

(***************************************************************************)
(* The catalog grid: category filter and pagination                        *)
(***************************************************************************)
\* itemsToShow: 300, and the step of "Load More"
PageSize == 300

\* the value of the first option of #category-filter
AllCategories == "all"

\* the categories of the metadata, in sort() order
CategoryOrder == <<"Animals", "Smileys", "Unknown">>

\* rankingsData: null
NoRankings == [loaded |-> FALSE, items |-> <<>>]

Rankings(items) == [loaded |-> TRUE, items |-> items]

\* a full emoji list of n items, sorted by sort_order, the categories in turn
MixedList(n) ==
  [i \in 1..n |-> [sort_order |-> i, category |-> CategoryOrder[(i % 3) + 1]]]

\* a full emoji list of n items of two categories, one after the other
PairedList(n) ==
  [i \in 1..n |-> [sort_order |-> i,
                   category   |-> IF 2 * i <= n THEN "Animals" ELSE "Smileys"]]

\* a full emoji list of n items of one category
PlainList(n) == [i \in 1..n |-> [sort_order |-> i, category |-> "Smileys"]]

\* list lengths around every page boundary
ListLengths ==
  {0, 1} \cup {k * PageSize + d : k \in 1..MaxPages, d \in {-1, 0, 1}}

\* what fetchFullEmojiList resolves to; [] when the metadata fetch failed
FullEmojiLists ==
  {MixedList(n) : n \in ListLengths} \cup {PairedList(n) : n \in ListLengths}
  \cup {PlainList(n) : n \in ListLengths}

Min(a, b) == IF a <= b THEN a ELSE b

\* Array.prototype.slice(0, end) for end >= 0
slice(a, end) == SubSeq(a, 1, Min(end, Len(a)))

\* the option values after populateCategoryFilter(data)
populateCategoryFilter(data) ==
  <<AllCategories>> \o
  SelectSeq(CategoryOrder,
            LAMBDA c : \E i \in 1..Len(data) : data[i].category = c)

\* the items of rankingsData that pass the category filter
FilterCategory(data, category) ==
  IF category # AllCategories
  THEN SelectSeq(data, LAMBDA e : e.category = category)
  ELSE data

Spinner == [state |-> "loading", displayData |-> <<>>, loadMore |-> FALSE,
            countInfo |-> <<0, 0>>]

FailedToLoad == [state |-> "failed", displayData |-> <<>>,
                 loadMore |-> FALSE, countInfo |-> <<0, 0>>]

\* a grid that offers "Load More" as soon as the page is full
GridOfFullPage(filtered, items) ==
  IF Len(slice(filtered, items)) = 0
  THEN [state |-> "none", displayData |-> <<>>, loadMore |-> FALSE,
        countInfo |-> <<0, 0>>]
  ELSE [state       |-> "items",
        displayData |-> slice(filtered, items),
        loadMore    |-> Len(filtered) >= items,
        countInfo   |-> IF Len(filtered) >= items
                        THEN <<Len(slice(filtered, items)), Len(filtered)>>
                        ELSE <<0, 0>>]

\* the grid container after the body of renderFilteredGrid
GridOf(filtered, items) ==
  IF Len(slice(filtered, items)) = 0
  THEN [state |-> "none", displayData |-> <<>>, loadMore |-> FALSE,
        countInfo |-> <<0, 0>>]
  ELSE [state       |-> "items",
        displayData |-> slice(filtered, items),
        loadMore    |-> Len(filtered) > items,
        countInfo   |-> IF Len(filtered) > items
                        THEN <<Len(slice(filtered, items)), Len(filtered)>>
                        ELSE <<0, 0>>]

\* the grid container after renderFilteredGrid()
renderFilteredGrid(rankings, category, items, shown) ==
  IF ~rankings.loaded
  THEN shown
  ELSE GridOf(FilterCategory(rankings.items, category), items)

\* the page before loadRankings has resolved
CatalogIdle ==
  /\ rankingsData = NoRankings
  /\ currentCategoryFilter = AllCategories
  /\ itemsToShow = PageSize
  /\ categoryOptions = <<AllCategories>>
  /\ grid = Spinner

(***************************************************************************)
(* The spotlight carousel                                                  *)
(***************************************************************************)
NaN == -1

\* a % n for numbers a >= 0 and n >= 0: NaN when n is 0
JsRemainder(a, n) == IF n = 0 THEN NaN ELSE a % n

\* the data-index values of the dots
DotIndexes == 0..(MaxSlides - 1)

\* the track and the dots after updateCarousel()
updateCarousel(index) ==
  [translateX |-> IF index = NaN THEN NaN ELSE 0 - index * 100,
   activeDot  |-> IF index \in DotIndexes THEN index ELSE NaN]

\* (this.currentSpotlightIndex + 1) % totalSlides
nextIndex(index, total) ==
  IF index = NaN THEN NaN ELSE JsRemainder(index + 1, total)

\* a previous button that stops at the first slide
prevIndexStopping(index, total) == IF index > 0 THEN index - 1 ELSE index

\* (this.currentSpotlightIndex - 1 + totalSlides) % totalSlides
prevIndex(index, total) ==
  IF index = NaN THEN NaN ELSE JsRemainder(index - 1 + total, total)

\* the carousel as constructed, before initSpotlightCarousel has read the
\* track
CarouselIdle ==
  /\ currentSpotlightIndex = 0
  /\ totalSlides = 0
  /\ track = [translateX |-> 0, activeDot |-> 0]
  /\ clicks = <<>>

SideIdle == focus = NoFocus /\ CatalogIdle /\ CarouselIdle

Init == AppInit /\ PipeIdle /\ SideIdle

(***************************************************************************)
(* App: event handlers                                                     *)
(***************************************************************************)
\* the outcome of a run of updateVisualizationContext becomes the state
Rendered(run) ==
  /\ projection' = run.projection
  /\ view' = run.view

\* filters.year and the <select> after populateYearFilter, then the run of
\* updateVisualizationContext
FinishWith(caller, selected, loaded, select) ==
  /\ yearSelect' = select
  /\ filters' = [filters EXCEPT !.year = select.value]
  /\ Rendered(updateVisualizationContext(caller, selected, loaded, select.value,
                                         currentGranularity, view))
  /\ loadedData' = LoadedAfter(selected, loaded, select.value, currentGranularity)

\* a tail that renders the selection its own call began with
FinishHandlerOwnSelection(h, call, selected, loaded) ==
  FinishWith(CallerOf(h, call), call.sel, loaded,
             populateYearFilter(call.sel, loaded, yearSelect))

\* the tail of handleSelectionChange: populateYearFilter, then
\* updateVisualizationContext
FinishHandler(h, call, selected, loaded) ==
  FinishWith(CallerOf(h, call), selected, loaded,
             populateYearFilter(selected, loaded, yearSelect))

\* a loop that starts the fetch of every entity before it awaits any
FirstFetchesAll(toLoad) == Range(toLoad)

\* the fetches a call has started when it reaches its first await: the loop
\* awaits loadEmojiTimeSeries inside its body, one entity per turn
FirstFetches(toLoad) == {toLoad[1]}

\* a call of handleSelectionChange as it begins
NewCall(currentSelection, toLoad) ==
  [sel |-> currentSelection, toLoad |-> toLoad, known |-> DOMAIN loadedData,
   idx |-> 1, pc |-> "awaiting", issued |-> {}, resolved |-> {}]

\* handleSelectionChange from its start to its first await, or to its end
\* when nothing has to be loaded
BeginCall(currentSelection, toLoad) ==
  /\ selectedEmojis' = currentSelection
  /\ IF Len(toLoad) > 0
     THEN /\ handlers' = Append(handlers,
                                [NewCall(currentSelection, toLoad)
                                   EXCEPT !.issued = FirstFetches(toLoad)])
          /\ fetchCount' = [e \in Entities |->
                              IF e \in FirstFetches(toLoad)
                              THEN fetchCount[e] + 1 ELSE fetchCount[e]]
          /\ UNCHANGED <<yearSelect, filters, projection, view, loadedData>>
     ELSE /\ handlers' = Append(handlers, Returned)
          /\ FinishHandler(Len(handlers) + 1, NewCall(currentSelection, toLoad),
                           currentSelection, loadedData)
          /\ UNCHANGED fetchCount

\* 'change' on #emoji-selector
SelectionChange(selectedValues) ==
  /\ Len(handlers) < MaxEvents
  /\ BeginCall(selectedValues, ToLoad(selectedValues, loadedData))
  /\ UNCHANGED <<currentGranularity, writeCount, lastFetchFailed>>
  /\ UNCHANGED pipeVars
  /\ UNCHANGED sideVars

\* call h resumes after its await with data for emoji: loadedData.set, then
\* the next fetch of the loop or the tail of the handler
ResumeCall(h, call, emoji, loaded) ==
  /\ writeCount' = [writeCount EXCEPT ![emoji] = @ + 1]
  /\ IF LoopFinished(call)
     THEN /\ handlers' = [handlers EXCEPT ![h] = Returned]
          /\ FinishHandler(h, [call EXCEPT !.resolved = @ \cup {emoji}],
                           selectedEmojis, loaded)
          /\ UNCHANGED fetchCount
     ELSE /\ handlers' = [handlers EXCEPT
                            ![h] = [call EXCEPT
                                      !.resolved = @ \cup {emoji},
                                      !.idx = @ + 1,
                                      !.issued = @ \cup {call.toLoad[call.idx + 1]}]]
          /\ fetchCount' = [fetchCount EXCEPT ![call.toLoad[call.idx + 1]] = @ + 1]
          /\ loadedData' = loaded
          /\ UNCHANGED <<yearSelect, filters, projection, view>>

\* the awaited loadEmojiTimeSeries of call h settles
FetchResolve(h, outcome) ==
  /\ h \in 1..Len(handlers)
  /\ handlers[h].pc = "awaiting"
  /\ outcome \in FetchOutcomes(handlers[h].toLoad[handlers[h].idx])
  /\ ResumeCall(h, handlers[h], handlers[h].toLoad[handlers[h].idx],
                MapSet(loadedData, handlers[h].toLoad[handlers[h].idx],
                       loadEmojiTimeSeries(outcome,
                                           handlers[h].toLoad[handlers[h].idx])))
  /\ lastFetchFailed' =
       IF outcome.ok
       THEN lastFetchFailed \ {handlers[h].toLoad[handlers[h].idx]}
       ELSE lastFetchFailed \cup {handlers[h].toLoad[handlers[h].idx]}
  /\ UNCHANGED <<selectedEmojis, currentGranularity>>
  /\ UNCHANGED pipeVars
  /\ UNCHANGED sideVars

\* a change of granularity that leaves the year filter as it is
updateFilterVisibilityKeepsYear(select) == select

\* App.updateFilterVisibility: the <select> (and with it filters.year) is
\* set to 'all'; showing or hiding it is not modelled
updateFilterVisibility(select) == [select EXCEPT !.value = ALL]

\* click on a granularity button, with updateFilterVisibility
GranularityClick(granularity) ==
  /\ currentGranularity' = granularity
  /\ filters' = [filters EXCEPT !.year = updateFilterVisibility(yearSelect).value]
  /\ yearSelect' = updateFilterVisibility(yearSelect)
  /\ Rendered(updateVisualizationContext(UiCaller, selectedEmojis, loadedData,
                                         updateFilterVisibility(yearSelect).value,
                                         granularity, view))
  /\ loadedData' = LoadedAfter(selectedEmojis, loadedData,
                               updateFilterVisibility(yearSelect).value,
                               granularity)
  /\ UNCHANGED <<selectedEmojis, handlers, fetchCount, writeCount,
                 lastFetchFailed>>
  /\ UNCHANGED pipeVars
  /\ UNCHANGED sideVars

\* 'change' on #year-filter: the user picked one of its options
YearFilterChange(value) ==
  /\ value \in Range(yearSelect.options)
  /\ filters' = [filters EXCEPT !.year = value]
  /\ yearSelect' = [yearSelect EXCEPT !.value = value]
  /\ Rendered(updateVisualizationContext(UiCaller, selectedEmojis, loadedData,
                                         value, currentGranularity, view))
  /\ loadedData' = LoadedAfter(selectedEmojis, loadedData, value,
                               currentGranularity)
  /\ UNCHANGED <<selectedEmojis, currentGranularity, handlers,
                 fetchCount, writeCount, lastFetchFailed>>
  /\ UNCHANGED pipeVars
  /\ UNCHANGED sideVars

YearOptionValues == {ALL} \cup {NumberToString(y) : y \in FilterYears}

Next ==
  \/ \E selectedValues \in Selections : SelectionChange(selectedValues)
  \/ \E h \in 1..MaxEvents :
       \E outcome \in UNION {FetchOutcomes(e) : e \in Entities} :
         FetchResolve(h, outcome)
  \/ \E granularity \in Granularities : GranularityClick(granularity)
  \/ \E value \in YearOptionValues : YearFilterChange(value)

Spec == Init /\ [][Next]_vars

(***************************************************************************)
(* Pipeline: one CSV file through processTimeSeriesData, then the year     *)
(* filter or aggregateData                                                 *)
(***************************************************************************)
PipeInit ==
  /\ AppInit
  /\ SideIdle
  /\ csv \in CsvFiles
  /\ series = <<>>
  /\ granArg = "day"
  /\ yearArg = ALL
  /\ result = <<>>
  /\ stage = "csv"

\* loadEmojiTimeSeries hands the parsed file to processTimeSeriesData
PipeProcess ==
  /\ stage = "csv"
  /\ series' = processTimeSeriesData(csv, "santa")
  /\ stage' = "loaded"
  /\ UNCHANGED <<csv, granArg, yearArg, result>>
  /\ UNCHANGED appVars
  /\ UNCHANGED sideVars

\* aggregateData(series, granularity)
PipeAggregate(granularity) ==
  /\ stage = "loaded"
  /\ granArg' = granularity
  /\ result' = aggregateData(series, granularity)
  /\ stage' = "aggregated"
  /\ UNCHANGED <<csv, series, yearArg>>
  /\ UNCHANGED appVars
  /\ UNCHANGED sideVars

\* aggregateData applied to its own output, with the same granularity
PipeAggregateAgain ==
  /\ stage = "aggregated"
  /\ result' = aggregateData(result, granArg)
  /\ stage' = "reaggregated"
  /\ UNCHANGED <<csv, series, granArg, yearArg>>
  /\ UNCHANGED appVars
  /\ UNCHANGED sideVars

\* the year filter applied to series
PipeFilter(year) ==
  /\ stage = "loaded"
  /\ yearArg' = year
  /\ result' = applyYearFilter(series, year)
  /\ stage' = "filtered"
  /\ UNCHANGED <<csv, series, granArg>>
  /\ UNCHANGED appVars
  /\ UNCHANGED sideVars

PipeNext ==
  \/ PipeProcess
  \/ \E granularity \in Granularities : PipeAggregate(granularity)
  \/ PipeAggregateAgain
  \/ \E year \in YearOptionValues : PipeFilter(year)

PipeSpec == PipeInit /\ [][PipeNext]_vars

(***************************************************************************)
(* Loader: one CSV file, rows with unreadable or impossible days included, *)
(* through loadEmojiTimeSeries into the cache                              *)
(***************************************************************************)
\* rows of a served file: two good rows, February 30 and an unreadable day
LoadRowValues ==
  { Row(2023, 1, 5, 3), Row(2022, 12, 28, 5), Row(2023, 2, 30, 1), BadRow(2) }

LoadFiles == SeqsUpTo(LoadRowValues, MaxRows)

LoadInit ==
  /\ AppInit
  /\ SideIdle
  /\ csv \in LoadFiles
  /\ series = <<>>
  /\ granArg = "day"
  /\ yearArg = ALL
  /\ result = <<>>
  /\ stage = "csv"

\* the fetch of emojiName settles and handleSelectionChange stores what
\* loadEmojiTimeSeries returned
LoadResolve(emojiName, ok) ==
  /\ emojiName \notin DOMAIN loadedData
  /\ series' = loadEmojiTimeSeries([ok |-> ok, rows |-> csv], emojiName)
  /\ loadedData' = MapSet(loadedData, emojiName, series')
  /\ writeCount' = [writeCount EXCEPT ![emojiName] = @ + 1]
  /\ stage' = "cached"
  /\ UNCHANGED <<csv, granArg, yearArg, result>>
  /\ UNCHANGED <<selectedEmojis, currentGranularity, filters, yearSelect,
                 handlers, projection, view, fetchCount, lastFetchFailed>>
  /\ UNCHANGED sideVars

LoadNext == \E emojiName \in Entities, ok \in BOOLEAN : LoadResolve(emojiName, ok)

LoadSpec == LoadInit /\ [][LoadNext]_vars

(***************************************************************************)
(* Chart: the mousemove handler of createTimeSeriesChart on one dataset    *)
(***************************************************************************)
RECURSIVE BisectLeft(_, _, _, _)
\* d3.bisector(d => d.date).left(a, x, lo, hi); index k of the code is
\* element k + 1 here
BisectLeft(a, x, lo, hi) ==
  IF lo < hi
  THEN IF a[((lo + hi) \div 2) + 1].date - x < 0
       THEN BisectLeft(a, x, ((lo + hi) \div 2) + 1, hi)
       ELSE BisectLeft(a, x, lo, (lo + hi) \div 2)
  ELSE lo

\* a[k] of the code
ElementAt(a, k) == IF k \in 0..(Len(a) - 1) THEN a[k + 1] ELSE undefined

\* a choice between d0 and d1 that takes the later point on a tie
NearerOrLater(d0, d1, xDate) ==
  IF d0 # undefined /\ d1 # undefined
  THEN IF xDate - d0.date >= d1.date - xDate THEN d1 ELSE d0
  ELSE IF d0 # undefined THEN d0 ELSE d1

\* d of the handler: the nearer of d0 and d1, or the one that exists
Nearer(d0, d1, xDate) ==
  IF d0 # undefined /\ d1 # undefined
  THEN IF xDate - d0.date > d1.date - xDate THEN d1 ELSE d0
  ELSE IF d0 # undefined THEN d0 ELSE d1

\* d0 and d1 around idx, then d
PointAround(values, xDate, idx) ==
  Nearer(ElementAt(values, idx - 1), ElementAt(values, idx), xDate)

\* the point the focus dot of a dataset moves to; undefined hides the dot
FocusPoint(values, xDate) ==
  PointAround(values, xDate, BisectLeft(values, xDate, 1, Len(values)))

\* the dates of the points of a drawn dataset: gaps of one, two and three
\* days
HoverDates == {DaysFromCivil(2023, 1, 1) + k : k \in {0, 2, 3, 6}}

\* x.invert(mouseX): the cursor may lie outside the dataset's own points
CursorDates == {DaysFromCivil(2023, 1, 1) + k : k \in -1..7}

\* the datasets of the hover specification: ascending, days may repeat
HoverSeries ==
  {[i \in 1..Len(s) |-> [date |-> s[i], usage |-> i, emoji |-> "santa"]] :
     s \in {t \in SeqsUpTo(HoverDates, MaxPoints) :
              \A i \in 1..(Len(t) - 1) : t[i] <= t[i + 1]}}

HoverInit ==
  /\ AppInit
  /\ SideIdle
  /\ csv = <<>>
  /\ series = <<>>
  /\ granArg = "day"
  /\ yearArg = ALL
  /\ result \in HoverSeries
  /\ stage = "drawn"

\* 'mousemove' on the overlay of the chart that shows result
MouseMove(xDate) ==
  /\ stage = "drawn"
  /\ focus' = [moved |-> TRUE, xDate |-> xDate, d |-> FocusPoint(result, xDate)]
  /\ UNCHANGED appVars
  /\ UNCHANGED pipeVars
  /\ UNCHANGED <<catalogVars, carouselVars>>

HoverNext == \E xDate \in CursorDates : MouseMove(xDate)

HoverSpec == HoverInit /\ [][HoverNext]_vars

(***************************************************************************)
(* The catalog specification: loadRankings, the category filter and        *)
(* "Load More"                                                             *)
(***************************************************************************)
CatalogInit == AppInit /\ PipeIdle /\ SideIdle

\* fetchFullEmojiList() resolves and loadRankings continues
LoadRankingsResolve(data) ==
  /\ ~rankingsData.loaded
  /\ rankingsData' = Rankings(data)
  /\ IF Len(data) > 0
     THEN /\ categoryOptions' = populateCategoryFilter(data)
          /\ grid' = renderFilteredGrid(Rankings(data), currentCategoryFilter,
                                        itemsToShow, grid)
     ELSE /\ categoryOptions' = categoryOptions
          /\ grid' = FailedToLoad
  /\ UNCHANGED <<currentCategoryFilter, itemsToShow>>
  /\ UNCHANGED <<appVars, pipeVars, focus, carouselVars>>

\* 'change' on #category-filter
CategoryFilterChange(value) ==
  /\ currentCategoryFilter' = value
  /\ itemsToShow' = PageSize
  /\ grid' = renderFilteredGrid(rankingsData, value, PageSize, grid)
  /\ UNCHANGED <<rankingsData, categoryOptions>>
  /\ UNCHANGED <<appVars, pipeVars, focus, carouselVars>>

\* click on the "Load More Emojis" button of the grid
LoadMoreClick ==
  /\ grid.loadMore
  /\ itemsToShow' = itemsToShow + PageSize
  /\ grid' = renderFilteredGrid(rankingsData, currentCategoryFilter,
                                itemsToShow + PageSize, grid)
  /\ UNCHANGED <<rankingsData, currentCategoryFilter, categoryOptions>>
  /\ UNCHANGED <<appVars, pipeVars, focus, carouselVars>>

CatalogNext ==
  \/ \E data \in FullEmojiLists : LoadRankingsResolve(data)
  \/ \E k \in 1..Len(categoryOptions) :
       CategoryFilterChange(categoryOptions[k])
  \/ LoadMoreClick

CatalogSpec == CatalogInit /\ [][CatalogNext]_vars

(***************************************************************************)
(* The carousel specification                                              *)
(***************************************************************************)
\* initSpotlightCarousel has read the number of slides of the page
CarouselInit ==
  /\ AppInit /\ PipeIdle
  /\ focus = NoFocus /\ CatalogIdle
  /\ currentSpotlightIndex = 0
  /\ totalSlides \in 0..MaxSlides
  /\ track = [translateX |-> 0, activeDot |-> 0]
  /\ clicks = <<>>

\* a click handler has assigned index and called updateCarousel()
Clicked(button, index) ==
  /\ Len(clicks) < MaxClicks
  /\ currentSpotlightIndex' = index
  /\ track' = updateCarousel(index)
  /\ clicks' = Append(clicks, [button |-> button, index |-> index])
  /\ UNCHANGED totalSlides
  /\ UNCHANGED <<appVars, pipeVars, focus, catalogVars>>

\* click on #spotlight-next
SpotlightNext == Clicked("next", nextIndex(currentSpotlightIndex, totalSlides))

\* click on #spotlight-prev
SpotlightPrev == Clicked("prev", prevIndex(currentSpotlightIndex, totalSlides))

\* click on a dot
DotClick(index) == Clicked("dot", index)

CarouselNext ==
  \/ SpotlightNext
  \/ SpotlightPrev
  \/ \E index \in DotIndexes : DotClick(index)

CarouselSpec == CarouselInit /\ [][CarouselNext]_vars

(***************************************************************************)
(* Properties                                                              *)
(***************************************************************************)
RECURSIVE TotalUsage(_)
TotalUsage(s) ==
  IF Len(s) = 0 THEN 0 ELSE TotalUsage(SubSeq(s, 1, Len(s) - 1)) + s[Len(s)].usage

StrictlyAscending(s) == \A i \in 1..(Len(s) - 1) : s[i].date < s[i + 1].date

Ascending(s) == \A i \in 1..(Len(s) - 1) : s[i].date <= s[i + 1].date

\* the date lies between January 1 of year and January 1 of the next year
InYear(date, year) ==
  DaysFromCivil(year, 1, 1) <= date /\ date < DaysFromCivil(year + 1, 1, 1)

\* C1: for every loaded record sequence and every granularity, the usage
\* summed over the buckets returned by aggregateData equals the usage summed
\* over the input records.
C1_SumPreservation ==
  stage = "aggregated" => TotalUsage(result) = TotalUsage(series)

\* a month aggregation that merged records and still has several buckets
C1_Witness ==
  /\ stage = "aggregated"
  /\ granArg = "month"
  /\ Len(result) >= 2
  /\ Len(result) < Len(series)

\* C2 as stated: for every granularity, day included, the output of
\* aggregateData is strictly ascending by bucket date.
C2_StrictlyAscendingAlways ==
  stage = "aggregated" => StrictlyAscending(result)

\* C2 as amended: for week, month and year the output of aggregateData is
\* strictly ascending by bucket date; for day it is ascending, and two
\* records of the same day both stay in the output.
C2_StrictlyAscendingUnlessDay ==
  stage = "aggregated" =>
    /\ granArg # "day" => StrictlyAscending(result)
    /\ granArg = "day" => Ascending(result) /\ Len(result) = Len(series)

\* a week aggregation that merged records and still has several buckets
C2_Witness ==
  /\ stage = "aggregated"
  /\ granArg = "week"
  /\ Len(result) >= 2
  /\ Len(result) < Len(series)

\* the granularity-resolution table of the specification
ResolutionTable(requested, year) ==
  CASE requested = "day"   -> "day"
    [] requested = "week"  -> "week"
    [] requested = "month" -> IF year = ALL THEN "month" ELSE "day"
    [] requested = "year"  -> "year"

\* C3: a projection that got as far as resolving the granularity used, for
\* every entity and for the chart, the requested granularity, except month
\* with a specific year, which became day.
C3_GranularityResolution ==
  (projection.outcome = "ok" \/ Len(projection.data) > 0) =>
    /\ projection.ran.requested = currentGranularity
    /\ projection.ran.year = filters.year
    /\ projection.granularity = ResolutionTable(currentGranularity, filters.year)
    /\ \A i \in 1..Len(projection.data) :
         projection.data[i].granularity =
           ResolutionTable(currentGranularity, filters.year)

\* month was requested inside a specific year and a chart was drawn by day
C3_Witness ==
  /\ projection.outcome = "ok"
  /\ currentGranularity = "month"
  /\ filters.year # ALL
  /\ view.state = "chart"
  /\ view.granularity = "day"

\* C4: with year 'all' the filter returns its input; with a specific year it
\* returns exactly the records of that calendar year, in their order, so the
\* output and the records of other years add up to the input.
C4_YearFilter ==
  stage = "filtered" =>
    IF yearArg = ALL THEN result = series
    ELSE \E year \in FilterYears :
           /\ NumberToString(year) = yearArg
           /\ result = SelectSeq(series, LAMBDA r : InYear(r.date, year))
           /\ Len(result)
                + Len(SelectSeq(series, LAMBDA r : ~InYear(r.date, year)))
                = Len(series)

\* a specific year that keeps some records and drops others
C4_Witness ==
  /\ stage = "filtered"
  /\ yearArg # ALL
  /\ Len(result) > 0
  /\ Len(result) < Len(series)

\* the display names of the selected entities that were loaded, in order
LoadedNames(selection, keys) ==
  LET kept == SelectSeq(selection, LAMBDA e : e \in keys)
  IN  [i \in 1..Len(kept) |-> DisplayName(kept[i])]

\* C5: a projection that ran while a selected entity had no entry in
\* loadedData raised no error and produced exactly the loaded selected
\* entities.
C5_MissingEntryOmitted ==
  (/\ projection.outcome # "none"
   /\ \E e \in Range(projection.ran.selection) : e \notin projection.ran.keys)
  => /\ projection.outcome = "ok"
     /\ [i \in 1..Len(projection.data) |-> projection.data[i].name]
          = LoadedNames(projection.ran.selection, projection.ran.keys)

C7_RenderAfterJoin ==
  /\ projection.ran.caller.h > 0 =>
       LET caller == projection.ran.caller
       IN  /\ caller.resolved = Range(caller.toLoad)
           /\ caller.issued = caller.resolved
           /\ Range(caller.toLoad) \subseteq projection.ran.keys
  /\ \A h \in 1..Len(handlers) :
       handlers[h].pc = "awaiting" => projection.ran.caller.h # h

\* a call that had two entities to load has rendered
C7_Witness ==
  /\ projection.ran.caller.h > 0
  /\ Len(projection.ran.caller.toLoad) = 2

\* C8: each key of loadedData is written at most once and at most one fetch
\* is issued per entity.
C8_WriteOnce ==
  \A e \in Entities : writeCount[e] <= 1 /\ fetchCount[e] <= 1

\* C9: no step removes a key from loadedData.
C9_NoEviction == [][DOMAIN loadedData \subseteq DOMAIN loadedData']_vars

\* the selection was cleared and both loaded entities are still cached
C9_Witness ==
  /\ selectedEmojis = <<>>
  /\ DOMAIN loadedData = Entities

\* the selected entities that were not cached when the call began
NeededAtStart(call) == {e \in Range(call.sel) : e \notin call.known}

\* C10: a call of handleSelectionChange issues fetches only for selected
\* entities that were not keys of loadedData when it began, and by the time
\* it renders it has issued one for each of them.
C10_SelectiveFetching ==
  /\ \A h \in 1..Len(handlers) :
       handlers[h].pc = "awaiting" =>
         handlers[h].issued \subseteq NeededAtStart(handlers[h])
  /\ projection.ran.caller.h > 0 =>
       projection.ran.caller.issued = NeededAtStart(projection.ran.caller)

\* a call re-selected a cached entity together with a new one and fetched
\* only the new one
C10_Witness ==
  /\ projection.ran.caller.h > 0
  /\ \E e \in Range(projection.ran.caller.sel) : e \in projection.ran.caller.known
  /\ projection.ran.caller.issued # {}

\* the years the dates of the model lie in
CalendarYears == 2021..2025

\* the first days of the calendar months, built from (year, month, 1)
MonthStarts == {DaysFromCivil(y, m, 1) : y \in CalendarYears, m \in 1..12}

\* the first day of the calendar month the date lies in
FirstOfMonth(date) ==
  CHOOSE f \in MonthStarts :
    f <= date /\ \A g \in MonthStarts : g <= date => g <= f

\* Scenario A of the specification and its expected output
ScenarioA == <<Row(2023, 1, 5, 3), Row(2023, 1, 20, 5), Row(2023, 2, 2, 2)>>

ScenarioAOutput ==
  <<[date |-> DaysFromCivil(2023, 1, 1), usage |-> 8],
    [date |-> DaysFromCivil(2023, 2, 1), usage |-> 2]>>

DateAndUsage(s) ==
  [i \in 1..Len(s) |-> [date |-> s[i].date, usage |-> s[i].usage]]

\* C11: with granularity month every record falls in the bucket dated the
\* first day of its calendar month, every bucket is such a first day with the
\* summed usage of the records of that month, no two buckets share a month,
\* and Scenario A yields (2023-01-01, 8), (2023-02-01, 2).
C11_MonthBucketing ==
  (stage = "aggregated" /\ granArg = "month") =>
    /\ \A i \in 1..Len(series) :
         \E j \in 1..Len(result) : result[j].date = FirstOfMonth(series[i].date)
    /\ \A j \in 1..Len(result) :
         /\ \E i \in 1..Len(series) :
              FirstOfMonth(series[i].date) = result[j].date
         /\ result[j].usage =
              TotalUsage(SelectSeq(series,
                LAMBDA r : FirstOfMonth(r.date) = result[j].date))
    /\ \A j, k \in 1..Len(result) : j # k => result[j].date # result[k].date
    /\ csv = ScenarioA => DateAndUsage(result) = ScenarioAOutput

\* Scenario A aggregated by month: three records became two buckets
C11_Witness ==
  /\ stage = "aggregated"
  /\ granArg = "month"
  /\ csv = ScenarioA
  /\ Len(series) = 3
  /\ Len(result) = 2

\* Sunday 2023-03-12, the bucket of Scenario E of the specification
KnownSunday == DaysFromCivil(2023, 3, 12)

\* the most recent Sunday at or before the date
SundayAtOrBefore(date) ==
  CHOOSE s \in (date - 6)..date : (s - KnownSunday) % 7 = 0

\* C12: with granularity week every record falls in the bucket dated the most
\* recent Sunday at or before its date, also when that Sunday lies in the
\* previous month or year; every bucket is such a Sunday with the summed
\* usage of the records of its week, no two buckets share a Sunday, and
\* Wednesday 2023-03-15 falls in the bucket 2023-03-12.
C12_WeekBucketing ==
  (stage = "aggregated" /\ granArg = "week") =>
    /\ \A i \in 1..Len(series) :
         \E j \in 1..Len(result) :
           result[j].date = SundayAtOrBefore(series[i].date)
    /\ \A j \in 1..Len(result) :
         /\ \E i \in 1..Len(series) :
              SundayAtOrBefore(series[i].date) = result[j].date
         /\ result[j].usage =
              TotalUsage(SelectSeq(series,
                LAMBDA r : SundayAtOrBefore(r.date) = result[j].date))
    /\ \A j, k \in 1..Len(result) : j # k => result[j].date # result[k].date
    /\ \A i \in 1..Len(series) :
         series[i].date = DaysFromCivil(2023, 3, 15) =>
           \E j \in 1..Len(result) : result[j].date = DaysFromCivil(2023, 3, 12)

\* a week aggregation that summed two different days of one week and put a
\* record of January 2 in the bucket of the Sunday of the previous year
C12_Witness ==
  /\ stage = "aggregated"
  /\ granArg = "week"
  /\ csv = <<Row(2024, 1, 2, 2), Row(2023, 1, 5, 3), Row(2023, 1, 3, 2)>>
  /\ DateAndUsage(result) =
       <<[date |-> DaysFromCivil(2023, 1, 1), usage |-> 5],
         [date |-> DaysFromCivil(2023, 12, 31), usage |-> 2]>>

\* the calendar year the date lies in
YearOf(date) == CHOOSE y \in CalendarYears : InYear(date, y)

\* C13: with granularity year every record falls in the bucket dated January
\* 1 of its calendar year, every bucket carries the summed usage of the
\* records of its year, and the output has exactly one bucket per distinct
\* calendar year of the input.
C13_YearBucketing ==
  (stage = "aggregated" /\ granArg = "year") =>
    /\ \A i \in 1..Len(series) :
         \E j \in 1..Len(result) :
           result[j].date = DaysFromCivil(YearOf(series[i].date), 1, 1)
    /\ \A j \in 1..Len(result) :
         result[j].usage =
           TotalUsage(SelectSeq(series,
             LAMBDA r : DaysFromCivil(YearOf(r.date), 1, 1) = result[j].date))
    /\ Len(result) =
         Cardinality({YearOf(series[i].date) : i \in 1..Len(series)})

\* a year aggregation of three records of two years, two of them in
\* different months of one year
C13_Witness ==
  /\ stage = "aggregated"
  /\ granArg = "year"
  /\ csv = <<Row(2023, 2, 2, 2), Row(2022, 12, 28, 5), Row(2023, 1, 20, 5)>>
  /\ DateAndUsage(result) =
       <<[date |-> DaysFromCivil(2022, 1, 1), usage |-> 5],
         [date |-> DaysFromCivil(2023, 1, 1), usage |-> 7]>>

\* C14: aggregateData with granularity day returns its input: one bucket per
\* record, in the same order, nothing merged; applied to its own output it
\* returns that output again.
C14_DayIdentity ==
  (stage \in {"aggregated", "reaggregated"} /\ granArg = "day") =>
    result = series

\* day aggregation applied twice to a series with a repeated day
C14_Witness ==
  /\ stage = "reaggregated"
  /\ granArg = "day"
  /\ Len(result) = MaxRows
  /\ \E i \in 1..(Len(result) - 1) :
       result[i].date = result[i + 1].date /\ result[i].usage # result[i + 1].usage

\* the records of the calendar year named by the option value, in order
YearRecords(records, value) ==
  SelectSeq(records,
    LAMBDA r : \E year \in FilterYears :
                 NumberToString(year) = value /\ InYear(r.date, year))

\* the projection has, for the selected loaded entity e, exactly the series
YearScopedEntry(run, e, values) ==
  \E k \in 1..Len(run.data) :
    /\ run.ran.selection[k] = e
    /\ run.data[k].name = DisplayName(e)
    /\ run.data[k].defined
    /\ run.data[k].values = values

\* C15: every run of the projection with month requested and a specific
\* year projects, for each selected entity that is loaded, exactly the
\* records of that entity in that year, unmerged and in their order.
C15_YearScopedMonthView ==
  [][(/\ projection' # projection
      /\ projection'.ran.requested = "month"
      /\ projection'.ran.year # ALL)
     => \A e \in Range(projection'.ran.selection) \cap DOMAIN loadedData' :
          YearScopedEntry(projection', e,
                          YearRecords(loadedData'[e], projection'.ran.year))]_vars

\* C16: a projection that ran on the empty selection raised no error and
\* produced the empty sequence, whatever the granularity, the year filter
\* and the content of loadedData; the chart area shows the placeholder.
C16_EmptySelection ==
  (projection.outcome # "none" /\ projection.ran.selection = <<>>) =>
    /\ projection.outcome = "ok"
    /\ projection.data = <<>>
    /\ view.state = "placeholder"

\* the projection ran on the empty selection by week inside a specific
\* year while both entities were cached, one of them with records
C16_Witness ==
  /\ projection.outcome = "ok"
  /\ projection.ran.selection = <<>>
  /\ projection.ran.requested = "week"
  /\ projection.ran.year # ALL
  /\ projection.ran.keys = Entities
  /\ \E e \in DOMAIN loadedData : Len(loadedData[e]) > 0

\* the last run of the projection got as far as calling updateVisualization
RenderReached == projection.outcome = "ok" \/ Len(projection.data) > 0

\* C17: after a render the chart area is in exactly one of three states,
\* determined by the projected data: the placeholder iff the projection is
\* empty, the no-data message iff it is non-empty and every entity has zero
\* buckets, a drawn chart iff some entity has at least one bucket.
C17_RenderStates ==
  RenderReached =>
    /\ projection.outcome = "ok"
    /\ view.state \in {"placeholder", "nodata", "chart"}
    /\ view.state = "placeholder" <=> Len(projection.data) = 0
    /\ view.state = "nodata" <=>
         /\ Len(projection.data) > 0
         /\ \A i \in 1..Len(projection.data) :
              Len(projection.data[i].values) = 0
    /\ view.state = "chart" <=>
         \E i \in 1..Len(projection.data) :
           Len(projection.data[i].values) > 0

\* C18: the effective granularity recorded on the entities of one projection
\* is one single value, the value handed to updateVisualization, and a drawn
\* chart was given that same value for its axis and tooltip.
C18_SingleEffectiveGranularity ==
  /\ \A i, j \in 1..Len(projection.data) :
       projection.data[i].granularity = projection.data[j].granularity
  /\ \A i \in 1..Len(projection.data) :
       projection.data[i].granularity = projection.granularity
  /\ view.state = "chart" =>
       /\ \A i \in 1..Len(view.data) :
            view.data[i].granularity = view.granularity
       /\ projection.outcome = "ok" =>
            view.data = projection.data /\ view.granularity = projection.granularity

\* two entities were projected by day inside a specific year after month was
\* requested, and the chart was drawn
C18_Witness ==
  /\ projection.outcome = "ok"
  /\ Len(projection.data) = 2
  /\ projection.ran.requested = "month"
  /\ projection.ran.year # ALL
  /\ view.state = "chart"
  /\ view.granularity = "day"

\* C19: a projection that ran while every selected entity was a key of
\* loadedData has exactly one entry per selected entity, in selection order,
\* and every bucket of an entry carries the id of that entity, the entity of
\* the records it was built from.
C19_OrderAndCoverage ==
  (/\ projection.outcome # "none"
   /\ Range(projection.ran.selection) \subseteq projection.ran.keys)
  => /\ projection.outcome = "ok"
     /\ Len(projection.data) = Len(projection.ran.selection)
     /\ \A i \in 1..Len(projection.data) :
          /\ projection.data[i].name = DisplayName(projection.ran.selection[i])
          /\ projection.data[i].defined
          /\ \A k \in 1..Len(projection.data[i].values) :
               projection.data[i].values[k].emoji = projection.ran.selection[i]

\* snake was selected before santa, both are loaded and were bucketed by
\* week
C19_Witness ==
  /\ projection.outcome = "ok"
  /\ projection.ran.selection = <<"snake", "santa">>
  /\ projection.ran.requested = "week"
  /\ Len(projection.data) = 2
  /\ \A i \in 1..Len(projection.data) : Len(projection.data[i].values) > 0

\* C20: every record stored in loadedData has a valid calendar date: a row
\* whose day cannot be read as YYYY-MM-DD was dropped or coerced by the
\* loader before the sequence entered the cache.
C20_ValidDatesOnly ==
  \A e \in DOMAIN loadedData :
    \A i \in 1..Len(loadedData[e]) : loadedData[e][i].date # null

\* C21: every sequence stored in loadedData is ascending by date (a record
\* without a date counts as the epoch, as in the comparator) and all its
\* records carry the key it is stored under, whatever the order of the rows
\* of the file.
C21_LoadedSequenceInvariant ==
  \A e \in DOMAIN loadedData :
    /\ \A i \in 1..(Len(loadedData[e]) - 1) :
         ToNumber(loadedData[e][i].date) <= ToNumber(loadedData[e][i + 1].date)
    /\ \A i \in 1..Len(loadedData[e]) : loadedData[e][i].emoji = e

\* a file whose rows are in descending order of day was loaded and cached
\* in ascending order under snake
C21_Witness ==
  /\ stage = "cached"
  /\ csv = <<Row(2023, 2, 30, 1), Row(2023, 1, 5, 3), Row(2022, 12, 28, 5)>>
  /\ "snake" \in DOMAIN loadedData
  /\ Len(loadedData["snake"]) = 3
  /\ loadedData["snake"][1].date = DaysFromCivil(2022, 12, 28)
  /\ loadedData["snake"][3].date = DaysFromCivil(2023, 3, 2)

\* what the loader can have stored for an entity
LoaderOutputs(e) == {<<>>, processTimeSeriesData(CsvOf(e), e)}

\* C22: a step in which the projection ran leaves selectedEmojis,
\* currentGranularity, filters.year and the keys of loadedData as the
\* projection read them, every sequence cached before the step as it was
\* unless the step itself stored it, and every cached record as the loader
\* made it.
C22_ProjectionReadOnly ==
  [][projection' # projection =>
       /\ selectedEmojis' = projection'.ran.selection
       /\ currentGranularity' = projection'.ran.requested
       /\ filters'.year = projection'.ran.year
       /\ DOMAIN loadedData' = projection'.ran.keys
       /\ \A e \in DOMAIN loadedData :
            writeCount'[e] = writeCount[e] => loadedData'[e] = loadedData[e]
       /\ \A e \in DOMAIN loadedData' : loadedData'[e] \in LoaderOutputs(e)]_vars

\* a click projected santa by week while both entities were cached with
\* records, and the chart was drawn
C22_Witness ==
  /\ projection.outcome = "ok"
  /\ projection.ran.caller.h = 0
  /\ projection.ran.requested = "week"
  /\ projection.ran.selection = <<"santa">>
  /\ view.state = "chart"
  /\ \A e \in Entities : e \in DOMAIN loadedData /\ Len(loadedData[e]) > 0

\* the distance in time between a point and the cursor
Distance(d, xDate) ==
  IF d.date - xDate < 0 THEN xDate - d.date ELSE d.date - xDate

\* C23: after a mousemove over a dataset sorted ascending by date the focus
\* point is a point of the dataset at minimal distance from the cursor, and
\* of two neighbours the cursor is equidistant from it is the earlier one; a
\* one-point dataset yields its point and an empty one no point.
C23_NearestPoint ==
  focus.moved =>
    /\ Len(result) = 0 => focus.d = undefined
    /\ Len(result) = 1 => focus.d = result[1]
    /\ Len(result) > 0 =>
         \E i \in 1..Len(result) :
           /\ focus.d = result[i]
           /\ \A j \in 1..Len(result) :
                Distance(result[i], focus.xDate) <= Distance(result[j], focus.xDate)
           /\ \A j \in 1..Len(result) :
                Distance(result[i], focus.xDate) = Distance(result[j], focus.xDate)
                  => result[i].date <= result[j].date

\* the cursor is halfway between the second and third point of a dataset
\* and the focus dot is on the second
C23_Witness ==
  /\ focus.moved
  /\ Len(result) = 3
  /\ result[2].date < focus.xDate
  /\ focus.xDate - result[2].date = result[3].date - focus.xDate
  /\ focus.d = result[2]

\* the fetches of a call that have been started and have not settled
InFlight(call) == call.issued \ call.resolved

\* C24 as stated: the fetches of one selection-change event do not wait for
\* one another, so a call that awaits has started the fetch of every entity
\* it has to load.
C24_ParallelWithinEvent ==
  \A h \in 1..Len(handlers) :
    handlers[h].pc = "awaiting" =>
      handlers[h].issued = Range(handlers[h].toLoad)

\* C24 as amended: a call that awaits has exactly one fetch in flight, the
\* one of the entity its loop has reached, and has started no fetch for the
\* entities after it; only fetches of different calls are in flight at the
\* same time.
C24_OneFetchPerCall ==
  \A h \in 1..Len(handlers) :
    handlers[h].pc = "awaiting" =>
      /\ InFlight(handlers[h]) = {handlers[h].toLoad[handlers[h].idx]}
      /\ handlers[h].issued =
           {handlers[h].toLoad[k] : k \in 1..handlers[h].idx}

\* two calls await at the same time, the first the fetch of santa and the
\* second, which has two entities to load, the fetch of snake
C24_Witness ==
  /\ Len(handlers) = 2
  /\ handlers[1].pc = "awaiting"
  /\ handlers[2].pc = "awaiting"
  /\ InFlight(handlers[1]) = {"santa"}
  /\ InFlight(handlers[2]) = {"snake"}
  /\ Len(handlers[2].toLoad) = 2

\* every call of handleSelectionChange has returned
AllReturned ==
  Len(handlers) > 0 /\ \A h \in 1..Len(handlers) : handlers[h].pc = "done"

\* C25: every run of the projection projects the selection that is current
\* when it runs, never the one an older call began with; and once every call
\* of handleSelectionChange has returned, the last run succeeded on exactly
\* the entities of the most recent selection, in order, all of them keys of
\* loadedData, and a drawn chart shows that projection.
C25_LatestSelectionWins ==
  [][/\ projection' # projection => projection'.ran.selection = selectedEmojis'
     /\ (Len(handlers') > 0 /\ handlers'[Len(handlers')].pc = "awaiting")
          => handlers'[Len(handlers')].sel = selectedEmojis'
     /\ AllReturned' =>
          /\ projection'.outcome = "ok"
          /\ projection'.ran.selection = selectedEmojis'
          /\ Range(selectedEmojis') \subseteq DOMAIN loadedData'
          /\ [i \in 1..Len(projection'.data) |-> projection'.data[i].name]
               = [i \in 1..Len(selectedEmojis') |-> DisplayName(selectedEmojis'[i])]
          /\ view'.state = "chart" => view'.data = projection'.data]_vars

\* the older of two calls returned last and rendered the selection of the
\* newer one, not the one it began with
C25_Witness ==
  /\ Len(handlers) = 2
  /\ AllReturned
  /\ projection.ran.caller.h = 1
  /\ projection.ran.caller.sel = <<"santa">>
  /\ selectedEmojis = <<"snake">>
  /\ view.state = "chart"

\* C26: a step that changes currentGranularity, a granularity-button event,
\* leaves filters.year and the <select> at 'all', and the projection it runs
\* was given the new granularity and 'all'; if it succeeded, its effective
\* granularity is the new one and every entry carries the usage of all
\* cached records of its entity.
C26_GranularityResetsYear ==
  [][currentGranularity' # currentGranularity =>
       /\ filters'.year = ALL
       /\ yearSelect'.value = ALL
       /\ projection'.ran.requested = currentGranularity'
       /\ projection'.ran.year = ALL
       /\ projection'.outcome = "ok" =>
            /\ projection'.granularity = currentGranularity'
            /\ \A i \in 1..Len(projection'.data) :
                 /\ projection'.data[i].granularity = currentGranularity'
                 /\ TotalUsage(projection'.data[i].values)
                      = TotalUsage(loadedData'[selectedEmojis'[i]])]_vars

\* a click on week drew santa's records of both years although santa's
\* file was loaded and its years are offered by the year filter
C26_Witness ==
  /\ currentGranularity = "week"
  /\ projection.ran.caller.h = 0
  /\ projection.outcome = "ok"
  /\ filters.year = ALL
  /\ Len(yearSelect.options) = 3
  /\ selectedEmojis = <<"santa">>
  /\ view.state = "chart"
  /\ Len(view.data[1].values) = 2

\* the option values of the calendar years that occur in the cached records
\* of the selected entities, or of every cached entity when none is selected
OccurringYears(selected, loaded) ==
  {NumberToString(y) : y \in
     {y \in CalendarYears :
        \E e \in (IF Len(selected) > 0 THEN Range(selected) ELSE DOMAIN loaded)
                   \cap DOMAIN loaded :
          \E i \in 1..Len(loaded[e]) : InYear(loaded[e][i].date, y)}}

\* this step is the return of a call of handleSelectionChange
HandlerReturns ==
  \E h \in 1..Len(handlers') :
    /\ handlers'[h].pc = "done"
    /\ h > Len(handlers) \/ handlers[h].pc = "awaiting"

\* C27: when a call of handleSelectionChange returns, filters.year is 'all'
\* or a calendar year that occurs in the cached records of a selected entity
\* (of any cached entity when the selection is empty): the year chosen
\* before is kept if it still occurs and is reset to 'all' otherwise.
C27_YearFilterStaysValid ==
  [][HandlerReturns =>
       /\ filters'.year \in {ALL} \cup OccurringYears(selectedEmojis', loadedData')
       /\ filters'.year =
            IF filters.year \in OccurringYears(selectedEmojis', loadedData')
            THEN filters.year ELSE ALL
       /\ yearSelect'.value = filters'.year
       /\ Range(yearSelect'.options) =
            {ALL} \cup OccurringYears(selectedEmojis', loadedData')]_vars

\* the second call returned with snake alone selected and kept the year
\* that was chosen while another selection was shown
C27_Witness ==
  /\ projection.ran.caller.h = 2
  /\ selectedEmojis = <<"snake">>
  /\ filters.year # ALL
  /\ projection.ran.year = filters.year
  /\ DOMAIN loadedData = Entities

\* the items of rankingsData of the chosen category, all of them for 'all'
MatchingItems ==
  SelectSeq(rankingsData.items,
            LAMBDA e : currentCategoryFilter = AllCategories
                       \/ e.category = currentCategoryFilter)

\* itemsToShow is a positive multiple of 300, and a rendered grid shows the
\* first min(itemsToShow, n) of the n matching items and offers "Load More"
\* iff n > itemsToShow
GridAsRendered ==
  /\ itemsToShow > 0 /\ itemsToShow % 300 = 0
  /\ grid.state \in {"items", "none"} =>
       /\ Len(grid.displayData) = Min(itemsToShow, Len(MatchingItems))
       /\ \A i \in 1..Len(grid.displayData) :
            grid.displayData[i] = MatchingItems[i]
       /\ grid.loadMore <=> Len(MatchingItems) > itemsToShow

\* "Load More" adds exactly 300, a change of the category filter leaves 300
PaginationSteps ==
  /\ currentCategoryFilter' # currentCategoryFilter => itemsToShow' = 300
  /\ itemsToShow' # itemsToShow =>
       \/ itemsToShow' = itemsToShow + 300 /\ grid.loadMore
       \/ itemsToShow' = 300

\* C28: itemsToShow starts at 300, is raised by exactly 300 by "Load More"
\* and is set to 300 by a change of the category filter, so it is always a
\* positive multiple of 300; a rendered grid shows the first
\* min(itemsToShow, n) of the n items that match the category filter and
\* offers "Load More" iff n > itemsToShow.
C28_CatalogPagination ==
  /\ itemsToShow = 300
  /\ []GridAsRendered
  /\ [][PaginationSteps]_vars

\* the third page of one category: two clicks on "Load More" after the
\* category was chosen, and the button is gone
C28_Witness ==
  /\ currentCategoryFilter = "Smileys"
  /\ itemsToShow = 900
  /\ Len(grid.displayData) = 601
  /\ ~grid.loadMore

\* the index before the k-th click
IndexBefore(k) == IF k = 1 THEN 0 ELSE clicks[k - 1].index

\* only the next and the previous button were clicked
OnlyNextAndPrev ==
  \A k \in 1..Len(clicks) : clicks[k].button \in {"next", "prev"}

\* C29: with at least one slide and starting from index 0, after any
\* sequence of next and previous clicks currentSpotlightIndex is an integer
\* in 0..totalSlides - 1; next from the last slide gives 0, previous from
\* slide 0 gives the last slide, and next followed by previous, or previous
\* followed by next, gives the index they started from.
C29_CarouselPosition ==
  (totalSlides >= 1 /\ OnlyNextAndPrev) =>
    /\ currentSpotlightIndex \in 0..(totalSlides - 1)
    /\ \A k \in 1..Len(clicks) :
         /\ clicks[k].index \in 0..(totalSlides - 1)
         /\ (clicks[k].button = "next" /\ IndexBefore(k) = totalSlides - 1)
              => clicks[k].index = 0
         /\ (clicks[k].button = "next" /\ IndexBefore(k) < totalSlides - 1)
              => clicks[k].index = IndexBefore(k) + 1
         /\ (clicks[k].button = "prev" /\ IndexBefore(k) = 0)
              => clicks[k].index = totalSlides - 1
         /\ (clicks[k].button = "prev" /\ IndexBefore(k) > 0)
              => clicks[k].index = IndexBefore(k) - 1
    /\ \A k \in 1..(Len(clicks) - 1) :
         clicks[k].button # clicks[k + 1].button
           => clicks[k + 1].index = IndexBefore(k)

\* three slides: previous from slide 0 wrapped to the last slide, next
\* wrapped back to 0, and one more next
C29_Witness ==
  /\ totalSlides = 3
  /\ clicks = <<[button |-> "prev", index |-> 2],
                [button |-> "next", index |-> 0],
                [button |-> "next", index |-> 1]>>
  /\ currentSpotlightIndex = 1
  /\ track.activeDot = 1

\* the fetch of e has failed and the empty sequence is stored for it
FailedAndStored(e) ==
  /\ e \in lastFetchFailed
  /\ e \in DOMAIN loadedData
  /\ loadedData[e] = <<>>

\* a selection change that starts after the failure of e was stored issues
\* no fetch for e
NoRetryByLaterEvent ==
  [][\A e \in Entities :
       (FailedAndStored(e) /\ Len(handlers') > Len(handlers))
         => fetchCount'[e] = fetchCount[e]]_vars

\* C30: once the fetch of an entity has failed and the empty sequence has
\* been stored, a later selection change that contains the entity issues no
\* other fetch for it, and the stored sequence, and with it the projected
\* series of the entity, stays empty from then on.
C30_FailedLoadNeverRetried ==
  [][\A e \in Entities :
       FailedAndStored(e) =>
         /\ Len(handlers') > Len(handlers) => fetchCount'[e] = fetchCount[e]
         /\ loadedData'[e] = <<>>
         /\ (projection' # projection /\ projection'.outcome = "ok") =>
              \A i \in 1..Len(projection'.data) :
                projection'.data[i].name = DisplayName(e)
                  => projection'.data[i].values = <<>>]_vars

=============================================================================
